---- MODULE Spec2Model ----
(***************************************************************************)
(* The GIN graph-convolution layers of spektral                            *)
(* (spektral/layers/convolutional/gin_conv.py): GINConv, which takes a     *)
(* sparse adjacency, and GINConvBatch, which takes a dense one.            *)
(*                                                                         *)
(* A tensor is a sequence: a feature matrix is a sequence of rows, a row a *)
(* sequence of integers; a batch is a sequence of matrices.  Node i of the *)
(* code (counted from 0) is row i + 1.  A sparse adjacency is its index    *)
(* list (row-major, indices from 0) and its dense shape.  Python's None is *)
(* a flag beside the value, so that every field keeps one type.            *)
(***************************************************************************)
EXTENDS Integers, Sequences, FiniteSets, TLC

VARIABLES
    self,     \* the layer object: its constructor attributes and what build adds
    inputs,   \* the caller's tensors of the current forward pass: <<>> or <<x, a>>
    res,      \* what the last forward call returned or raised
    clone     \* the layer rebuilt from self.config (NoClone before that)

vars == <<self, inputs, res, clone>>

\* ------------------------------------------------------------ bounds
MaxNodes == 2
MaxDim == 2
MaxFeat == 1
MaxChannels == 2
MaxHidden == 2
MaxEps == 1
MaxBatch == 2

\* ------------------------------------------------------------ values
One == 1

None(v) == [isNone |-> TRUE, v |-> v]
Some(v) == [isNone |-> FALSE, v |-> v]

\* An activation argument: None, a name (a string), or the function itself.
ActNone == [form |-> "None", name |-> "linear"]
ActStr(n) == [form |-> "str", name |-> n]
ActFn(n) == [form |-> "fn", name |-> n]

\* keras.activations.get: None is linear, a name is looked up, a callable is
\* returned as it is.
ActivationsGet(act) == IF act.form = "fn" THEN act ELSE ActFn(act.name)

Aggregates == {"sum", "mean", "max"}

\* ------------------------------------------------------------ construction
\* MessagePassing.__init__: the aggregation is selected at construction; the
\* layer keyword arguments become attributes.
MessagePassing_init(kw) ==
    [agg |-> kw.aggregate,
     activation |-> ActivationsGet(kw.activation),
     use_bias |-> kw.use_bias]

GINConv_mlp_hidden(mlp_hidden) ==
    IF (~mlp_hidden.isNone) /\ Len(mlp_hidden.v) > 0 THEN mlp_hidden.v ELSE <<>>

GINConv_init(cls, kw) ==
    LET base == MessagePassing_init(kw) IN
    [cls |-> cls,
     agg |-> base.agg,
     activation |-> base.activation,
     use_bias |-> base.use_bias,
     channels |-> kw.channels,
     epsilon |-> kw.epsilon,
     mlp_hidden |-> GINConv_mlp_hidden(kw.mlp_hidden),
     mlp_activation |-> ActivationsGet(kw.mlp_activation),
     mlp_batchnorm |-> kw.mlp_batchnorm,
     \* what build and the first application of the MLP add
     built |-> FALSE,
     build_dim |-> 0,
     mlp |-> <<>>,
     eps |-> 0,
     eps_is_weight |-> FALSE,
     kernel_dim |-> 0,
     weights |-> "unset"]

\* The keyword defaults of GINConv.__init__ (channels has none).
DefaultKw(channels) ==
    [channels |-> channels,
     epsilon |-> None(0),
     mlp_hidden |-> None(<<>>),
     mlp_activation |-> ActStr("relu"),
     mlp_batchnorm |-> TRUE,
     aggregate |-> "sum",
     activation |-> ActNone,
     use_bias |-> TRUE]

\* A mutant of GINConv_config: epsilon is left out, so the rebuilt layer learns it.
GINConv_config_no_epsilon(l) ==
    [channels |-> l.channels,
     epsilon |-> None(0),
     mlp_hidden |-> l.mlp_hidden,
     mlp_activation |-> l.mlp_activation,
     mlp_batchnorm |-> l.mlp_batchnorm]

GINConv_config(l) ==
    [channels |-> l.channels,
     epsilon |-> l.epsilon,
     mlp_hidden |-> l.mlp_hidden,
     mlp_activation |-> l.mlp_activation,
     mlp_batchnorm |-> l.mlp_batchnorm]

\* cls(**layer.config): the keys of config are passed, every other argument
\* takes its default.
KwFromConfig(cfg) ==
    [DefaultKw(cfg.channels) EXCEPT
        !.epsilon = cfg.epsilon,
        !.mlp_hidden = Some(cfg.mlp_hidden),
        !.mlp_activation = cfg.mlp_activation,
        !.mlp_batchnorm = cfg.mlp_batchnorm]

\* The attributes the constructor sets.
CtorAttrs(l) ==
    [agg |-> l.agg,
     activation |-> l.activation,
     use_bias |-> l.use_bias,
     channels |-> l.channels,
     epsilon |-> l.epsilon,
     mlp_hidden |-> l.mlp_hidden,
     mlp_activation |-> l.mlp_activation,
     mlp_batchnorm |-> l.mlp_batchnorm]

NoClone == [cls |-> "none"]
NoResult == [status |-> "none", agg |-> <<>>, pre |-> <<>>, out |-> <<>>]
Raised(what) == [status |-> what, agg |-> <<>>, pre |-> <<>>, out |-> <<>>]

\* ------------------------------------------------------------ build
Dense(units, activation, use_bias) ==
    [type |-> "Dense", units |-> units, activation |-> activation,
     use_bias |-> use_bias]

BatchNormalization ==
    [type |-> "BatchNormalization", units |-> 0, activation |-> ActFn("linear"),
     use_bias |-> FALSE]

\* The loop over self.mlp_hidden: a Dense per hidden size, each followed by a
\* BatchNormalization when mlp_batchnorm is set.
RECURSIVE HiddenLayers(_, _, _)
HiddenLayers(hidden, act, bn) ==
    IF Len(hidden) = 0 THEN <<>>
    ELSE <<Dense(Head(hidden), act, TRUE)>>
         \o (IF bn THEN <<BatchNormalization>> ELSE <<>>)
         \o HiddenLayers(Tail(hidden), act, bn)

\* A mutant of GINConv_build_mlp: with hidden layers, the output layer is left out.
GINConv_build_mlp_no_output(l) ==
    IF Len(l.mlp_hidden) > 0
    THEN HiddenLayers(l.mlp_hidden, l.mlp_activation, l.mlp_batchnorm)
    ELSE <<Dense(l.channels, l.activation, l.use_bias)>>

GINConv_build_mlp(l) ==
    HiddenLayers(l.mlp_hidden, l.mlp_activation, l.mlp_batchnorm)
    \o <<Dense(l.channels, l.activation, l.use_bias)>>

\* A mutant of GINConv_build_eps: "if not self.epsilon" for "if self.epsilon is None".
GINConv_build_eps_falsy(l) ==
    IF l.epsilon.isNone \/ l.epsilon.v = 0
    THEN [eps |-> 0, eps_is_weight |-> TRUE]
    ELSE [eps |-> l.epsilon.v, eps_is_weight |-> FALSE]

GINConv_build_eps(l) ==
    IF l.epsilon.isNone
    THEN [eps |-> 0, eps_is_weight |-> TRUE]
    ELSE [eps |-> l.epsilon.v, eps_is_weight |-> FALSE]

\* input_shape is the list of the inputs' shapes.  A failed assertion leaves
\* the layer as it was.  build_dim is the feature dimension build was shown.
GINConv_build(l, input_shape) ==
    IF Len(input_shape) >= 2
    THEN [l EXCEPT !.mlp = GINConv_build_mlp(l),
                   !.eps = GINConv_build_eps(l).eps,
                   !.eps_is_weight = GINConv_build_eps(l).eps_is_weight,
                   !.build_dim = input_shape[1][Len(input_shape[1])],
                   !.built = TRUE]
    ELSE l

\* ------------------------------------------------------------ the MLP
\* The weights of the Dense layers are drawn from a small family: "eye" (an
\* identity kernel, zero bias), "ones" (a kernel of ones, zero bias), "shift"
\* (an identity kernel, bias 1).  The bias initialiser is zeros, so a fresh
\* kernel is "eye" or "ones"; training reaches all three.
InitialWeights == {"eye", "ones"}
TrainedWeights == {"eye", "ones", "shift"}

Kernel(w, f, k) == IF w = "ones" \/ f = k THEN 1 ELSE 0
Bias(w) == IF w = "shift" THEN 1 ELSE 0
Activation(fn, v) == IF fn.name = "relu" /\ v < 0 THEN 0 ELSE v

RECURSIVE Dot(_, _, _, _)
Dot(row, w, k, f) ==
    IF f = 0 THEN 0 ELSE row[f] * Kernel(w, f, k) + Dot(row, w, k, f - 1)

DenseRow(layer, w, row) ==
    [k \in 1..layer.units |->
        Activation(layer.activation,
                   Dot(row, w, k, Len(row)) + (IF layer.use_bias THEN Bias(w) ELSE 0))]

\* BatchNormalization at inference with its initial statistics (mean 0,
\* variance 1, gamma 1, beta 0) returns its input (up to its 1e-3 epsilon).
LayerRow(layer, w, row) ==
    IF layer.type = "Dense" THEN DenseRow(layer, w, row) ELSE row

RECURSIVE MlpRow(_, _, _)
MlpRow(mlp, w, row) ==
    IF Len(mlp) = 0 THEN row ELSE MlpRow(Tail(mlp), w, LayerRow(Head(mlp), w, row))

MlpMatrix(mlp, w, m) == [i \in 1..Len(m) |-> MlpRow(mlp, w, m[i])]

\* The Sequential builds its Dense kernels when it is first applied, for the
\* last dimension it is shown; a Dense then accepts that dimension only.
Sequential_accepts(l, dim) == l.kernel_dim = 0 \/ l.kernel_dim = dim

Sequential_state(l, dim, w0) ==
    IF l.kernel_dim = 0 THEN [l EXCEPT !.kernel_dim = dim, !.weights = w0] ELSE l

\* ------------------------------------------------------------ tensors
Rows(m) == Len(m)
Cols(m) == Len(m[1])
ZeroRow(F) == [f \in 1..F |-> 0]
RowAdd(r, s) == [f \in 1..Len(r) |-> r[f] + s[f]]
RowMax(r, s) == [f \in 1..Len(r) |-> IF r[f] >= s[f] THEN r[f] ELSE s[f]]
Scale(c, m) == [i \in 1..Len(m) |-> [f \in 1..Len(m[i]) |-> c * m[i][f]]]
MatAdd(m, n) == [i \in 1..Len(m) |-> RowAdd(m[i], n[i])]

\* ------------------------------------------------------------ propagate
MessagePassing_get_inputs(in) == [x |-> in[1], a |-> in[2]]

\* message: each edge carries the features of its source node, the column
\* index of the entry (a_ij sends x_j to node i, as a . x does).
Messages(x, indices) == [k \in 1..Len(indices) |-> x[indices[k][2] + 1]]
Targets(indices) == [k \in 1..Len(indices) |-> indices[k][1] + 1]

RECURSIVE Scatter(_, _, _, _)
Scatter(messages, index_targets, k, acc) ==
    IF k > Len(messages) THEN acc
    ELSE LET i == index_targets[k]
             m == messages[k]
         IN Scatter(messages, index_targets, k + 1,
                [sum |-> [acc.sum EXCEPT ![i] = RowAdd(@, m)],
                 max |-> [acc.max EXCEPT ![i] = IF acc.cnt[i] = 0 THEN m
                                                ELSE RowMax(@, m)],
                 cnt |-> [acc.cnt EXCEPT ![i] = @ + 1]])

\* aggregate: the reduction chosen at construction, over the messages of each
\* target; a node that receives none gets zero.
Aggregate(agg, messages, index_targets, n, F) ==
    LET zero == [i \in 1..n |-> ZeroRow(F)]
        acc == Scatter(messages, index_targets, 1,
                       [sum |-> zero, max |-> zero, cnt |-> [i \in 1..n |-> 0]])
    IN CASE agg = "sum" -> acc.sum
         [] agg = "mean" ->
               [i \in 1..n |-> [f \in 1..F |->
                   acc.sum[i][f] \div (IF acc.cnt[i] = 0 THEN 1 ELSE acc.cnt[i])]]
         [] OTHER -> acc.max

\* propagate: message, aggregate, update (the update of the base is the
\* identity).  It raises when features and adjacency disagree on the nodes.
MessagePassing_propagate(l, x, a) ==
    IF a.dense_shape[1] # Rows(x) \/ a.dense_shape[2] # Rows(x)
    THEN [status |-> "ShapeMismatch", out |-> <<>>]
    ELSE [status |-> "ok",
          out |-> Aggregate(l.agg, Messages(x, a.indices), Targets(a.indices),
                            Rows(x), Cols(x))]

\* ops.modal_dot(a, x) in batch mode: a matrix product per sample.
RECURSIVE DotCol(_, _, _, _)
DotCol(arow, m, f, j) ==
    IF j = 0 THEN 0 ELSE arow[j] * m[j][f] + DotCol(arow, m, f, j - 1)

MatMul(am, m) ==
    [i \in 1..Len(am) |-> [f \in 1..Cols(m) |-> DotCol(am[i], m, f, Len(m))]]

modal_dot(a, x) ==
    IF Len(a) # Len(x) \/ \E b \in 1..Len(a) : Cols(a[b]) # Rows(x[b])
    THEN [status |-> "ShapeMismatch", out |-> <<>>]
    ELSE [status |-> "ok", out |-> [b \in 1..Len(a) |-> MatMul(a[b], x[b])]]

\* ------------------------------------------------------------ call
\* Mutants of GINConv_pre: eps for (one + eps); the neighbour term left out.
GINConv_pre_no_one(l, x, agg) == MatAdd(Scale(l.eps, x), agg)
GINConv_pre_no_neighbours(l, x, agg) == Scale(One + l.eps, x)

\* (self.one + self.eps) * x + self.propagate(x, a), before the MLP
GINConv_pre(l, x, agg) == MatAdd(Scale(One + l.eps, x), agg)

\* A mutant of GINConvBatch_pre: the node's own features are added once more.
GINConvBatch_pre_self_loop(l, x, ax) ==
    [b \in 1..Len(x) |-> MatAdd(MatAdd(Scale(One + l.eps, x[b]), ax[b]), x[b])]

\* (self.one + self.eps) * x + ops.modal_dot(a, x), before the MLP
GINConvBatch_pre(l, x, ax) ==
    [b \in 1..Len(x) |-> MatAdd(Scale(One + l.eps, x[b]), ax[b])]

\* A mutant of GINConv_call: the aggregation of the constructor is not the one
\* propagate uses.
GINConv_call_mean(l, in, w0) ==
    LET i == MessagePassing_get_inputs(in)
        p == MessagePassing_propagate([l EXCEPT !.agg = "mean"], i.x, i.a)
        pre == GINConv_pre(l, i.x, p.out)
    IN IF p.status # "ok" THEN [self |-> l, res |-> Raised(p.status)]
       ELSE IF ~Sequential_accepts(l, Cols(pre))
       THEN [self |-> l, res |-> Raised("ShapeMismatch")]
       ELSE LET l1 == Sequential_state(l, Cols(pre), w0)
            IN [self |-> l1,
                res |-> [status |-> "ok", agg |-> p.out, pre |-> pre,
                         out |-> MlpMatrix(l1.mlp, l1.weights, pre)]]

\* GINConv.call on a built layer; w0 is what the kernel initialiser draws if
\* the MLP is applied for the first time.
GINConv_call(l, in, w0) ==
    LET i == MessagePassing_get_inputs(in)
        p == MessagePassing_propagate(l, i.x, i.a)
        pre == GINConv_pre(l, i.x, p.out)
    IN IF p.status # "ok" THEN [self |-> l, res |-> Raised(p.status)]
       ELSE IF ~Sequential_accepts(l, Cols(pre))
       THEN [self |-> l, res |-> Raised("ShapeMismatch")]
       ELSE LET l1 == Sequential_state(l, Cols(pre), w0)
            IN [self |-> l1,
                res |-> [status |-> "ok", agg |-> p.out, pre |-> pre,
                         out |-> MlpMatrix(l1.mlp, l1.weights, pre)]]

\* A mutant of GINConvBatch_call: when the node counts disagree the features
\* are used alone, with no neighbour term, instead of raising.
GINConvBatch_call_unchecked(l, in, w0) ==
    LET x == in[1]
        a == in[2]
        d == modal_dot(a, x)
        ax == IF d.status = "ok" THEN d.out
              ELSE [b \in 1..Len(x) |-> [i \in 1..Rows(x[b]) |-> ZeroRow(Cols(x[b]))]]
        pre == GINConvBatch_pre(l, x, ax)
    IN IF ~Sequential_accepts(l, Cols(pre[1]))
       THEN [self |-> l, res |-> Raised("ShapeMismatch")]
       ELSE LET l1 == Sequential_state(l, Cols(pre[1]), w0)
            IN [self |-> l1,
                res |-> [status |-> "ok", agg |-> ax, pre |-> pre,
                         out |-> [b \in 1..Len(pre) |->
                                     MlpMatrix(l1.mlp, l1.weights, pre[b])]]]

\* GINConvBatch.call on a built layer.
GINConvBatch_call(l, in, w0) ==
    LET x == in[1]
        a == in[2]
        d == modal_dot(a, x)
        pre == GINConvBatch_pre(l, x, d.out)
    IN IF d.status # "ok" THEN [self |-> l, res |-> Raised(d.status)]
       ELSE IF ~Sequential_accepts(l, Cols(pre[1]))
       THEN [self |-> l, res |-> Raised("ShapeMismatch")]
       ELSE LET l1 == Sequential_state(l, Cols(pre[1]), w0)
            IN [self |-> l1,
                res |-> [status |-> "ok", agg |-> d.out, pre |-> pre,
                         out |-> [b \in 1..Len(pre) |->
                                     MlpMatrix(l1.mlp, l1.weights, pre[b])]]]

\* The shapes of the inputs, as the framework hands them to build.
ShapeOf(cls, in) ==
    IF cls = "GINConv"
    THEN <<(<<Rows(in[1]), Cols(in[1])>>), in[2].dense_shape>>
    ELSE <<(<<Len(in[1]), Rows(in[1][1]), Cols(in[1][1])>>),
           (<<Len(in[2]), Rows(in[2][1]), Cols(in[2][1])>>)>>

\* layer(inputs): build on the first call, then call.
LayerCall(l, in, w0) ==
    LET l1 == IF l.built THEN l ELSE GINConv_build(l, ShapeOf(l.cls, in))
    IN IF ~l1.built THEN [self |-> l1, res |-> Raised("AssertionError")]
       ELSE IF l1.cls = "GINConv" THEN GINConv_call(l1, in, w0)
       ELSE GINConvBatch_call(l1, in, w0)

\* ------------------------------------------------------------ actions
\* The caller makes the tensors of a forward pass; the result of the pass
\* before is dropped.
Feed(in) ==
    /\ inputs' = in
    /\ res' = NoResult
    /\ UNCHANGED <<self, clone>>

\* A mutant of Forward: (1 + eps) * x is computed in place, in the caller's tensor.
ForwardInPlace ==
    /\ Len(inputs) = 2
    /\ \E w0 \in InitialWeights :
          LET r == LayerCall(self, inputs, w0)
          IN /\ self' = r.self
             /\ res' = r.res
             /\ inputs' = IF r.res.status # "ok" THEN inputs
                          ELSE IF self.cls = "GINConv"
                          THEN <<Scale(One + r.self.eps, inputs[1]), inputs[2]>>
                          ELSE <<[b \in 1..Len(inputs[1]) |->
                                     Scale(One + r.self.eps, inputs[1][b])],
                                 inputs[2]>>
    /\ UNCHANGED clone

\* A forward call of the layer on the caller's tensors.
Forward ==
    /\ Len(inputs) = 2
    /\ \E w0 \in InitialWeights :
          LET r == LayerCall(self, inputs, w0)
          IN /\ self' = r.self
             /\ res' = r.res
    /\ UNCHANGED <<inputs, clone>>

EpsVals == 0..MaxEps

\* A training step after a forward call: the trainable weights move, the
\* kernels and, when it is a weight, eps.
Train ==
    /\ res.status = "ok"
    /\ \E w \in TrainedWeights :
          \E e \in (IF self.eps_is_weight THEN EpsVals ELSE {self.eps}) :
             self' = [self EXCEPT !.weights = w, !.eps = e]
    /\ res' = NoResult
    /\ UNCHANGED <<inputs, clone>>

\* cls(**self.config)
Reconstruct ==
    /\ clone' = GINConv_init(self.cls, KwFromConfig(GINConv_config(self)))
    /\ UNCHANGED <<self, inputs, res>>

\* ------------------------------------------------------------ inputs
MaxEdges == 2

Classes == {"GINConv", "GINConvBatch"}

\* Node features: node i carries c[i] * (1, 2, ..., F), c[i] in 0..MaxFeat.
FeatureRow(c, F) == [f \in 1..F |-> c * f]
Features(N, F) == {[i \in 1..N |-> FeatureRow(c[i], F)] : c \in [1..N -> 0..MaxFeat]}

Entries(n) == (0..(n - 1)) \X (0..(n - 1))
EdgeSets(n) == {E \in SUBSET Entries(n) : Cardinality(E) <= MaxEdges}

RECURSIVE RowMajor(_)
RowMajor(E) ==
    IF E = {} THEN <<>>
    ELSE LET e == CHOOSE e \in E :
                     \A g \in E : e[1] < g[1] \/ (e[1] = g[1] /\ e[2] <= g[2])
         IN <<e>> \o RowMajor(E \ {e})

\* A sparse adjacency: entry (i, j) is a_ij = 1.
SparseTensor(E, n) == [indices |-> RowMajor(E), dense_shape |-> <<n, n>>]
DenseMatrix(E, n) ==
    [i \in 1..n |-> [j \in 1..n |-> IF <<i - 1, j - 1>> \in E THEN 1 ELSE 0]]

\* A batch of MaxBatch graphs padded to n nodes: graph p has features x and
\* edges E, the others are complete graphs whose nodes all carry c.
BatchOf(x, E, n, p, c) ==
    <<[b \in 1..MaxBatch |->
          IF b = p THEN x ELSE [i \in 1..n |-> FeatureRow(c, MaxDim)]],
      [b \in 1..MaxBatch |->
          IF b = p THEN DenseMatrix(E, n) ELSE DenseMatrix(Entries(n), n)]>>

\* Inputs of every shape, valid or not: N feature rows of dimension F (the
\* least or the greatest) against a complete graph on n nodes, where n is N
\* (valid) or the node count after N.
NodeCounts(N) == {N, (N % MaxNodes) + 1}

ShapeInputs(cls) ==
    IF cls = "GINConv"
    THEN UNION {{<<[i \in 1..N |-> FeatureRow(1, F)], SparseTensor(Entries(n), n)>> :
                    F \in {1, MaxDim}, n \in NodeCounts(N)} : N \in 1..MaxNodes}
    ELSE UNION {{<<[b \in 1..MaxBatch |-> [i \in 1..N |-> FeatureRow(1, F)]],
                   [b \in 1..MaxBatch |-> DenseMatrix(Entries(n), n)]>> :
                    F \in {1, MaxDim}, n \in NodeCounts(N)} : N \in 1..MaxNodes}

Epsilons == {None(0), Some(0), Some(MaxEps)}
HiddenLists == {None(<<>>), Some(<<>>), Some(<<MaxHidden>>), Some(<<MaxHidden, 1>>)}

\* Constructor arguments: the MLP and epsilon vary.
LifeKw ==
    {[DefaultKw(ch) EXCEPT !.epsilon = e, !.mlp_hidden = h, !.mlp_batchnorm = bn] :
        ch \in {1, MaxChannels}, e \in Epsilons, h \in HiddenLists, bn \in BOOLEAN}

\* Constructor arguments: every argument varies.
ConfigKw ==
    {[kw EXCEPT !.mlp_activation = ma, !.aggregate = ag, !.activation = act] :
        kw \in LifeKw, ma \in {ActStr("relu"), ActStr("linear"), ActFn("relu")},
        ag \in Aggregates, act \in {ActNone, ActStr("relu")}}

\* Constructor arguments: epsilon and the aggregation vary.
ForwardKw ==
    {[DefaultKw(1) EXCEPT !.epsilon = e, !.aggregate = ag] :
        e \in Epsilons, ag \in Aggregates}

\* The graph of the 5-node scenario.
ScenarioAdjacency == SparseTensor({<<0, 1>>, <<1, 0>>, <<1, 2>>, <<3, 3>>}, 5)

\* ------------------------------------------------------------ specifications
\* The life of a layer: constructed, then called and trained any number of times.
Init ==
    /\ \E cls \in Classes, kw \in LifeKw : self = GINConv_init(cls, kw)
    /\ inputs = <<>>
    /\ res = NoResult
    /\ clone = NoClone

Next ==
    \/ \E in \in ShapeInputs(self.cls) : Feed(in)
    \/ Forward
    \/ Train

Spec == Init /\ [][Next]_vars

\* The forward computation of GINConv: a fresh layer and valid inputs (features
\* and a sparse adjacency on the same nodes), then forward calls.
InitForward ==
    /\ \E kw \in ForwardKw : self = GINConv_init("GINConv", kw)
    /\ \E n \in 1..MaxNodes, F \in 1..MaxDim :
          \E x \in Features(n, F), E \in EdgeSets(n) :
             inputs = <<x, SparseTensor(E, n)>>
    /\ res = NoResult
    /\ clone = NoClone

NextForward == Forward

SpecForward == InitForward /\ [][NextForward]_vars

\* The forward computation of GINConvBatch: a fresh layer and a valid batch,
\* then forward calls.
InitBatch ==
    /\ \E e \in Epsilons :
          self = GINConv_init("GINConvBatch", [DefaultKw(1) EXCEPT !.epsilon = e])
    /\ \E n \in 1..MaxNodes, p \in {1, MaxBatch} :
          \E x \in Features(n, MaxDim), E \in EdgeSets(n) :
             inputs = BatchOf(x, E, n, p, MaxFeat)
    /\ res = NoResult
    /\ clone = NoClone

NextBatch == Forward

SpecBatch == InitBatch /\ [][NextBatch]_vars

\* The 5-node scenario: sum aggregation, a single linear output layer as wide
\* as the features, epsilon 0.
InitScenario ==
    /\ \E F \in 1..MaxDim :
          /\ self = GINConv_init("GINConv", [DefaultKw(F) EXCEPT !.epsilon = Some(0)])
          /\ \E x \in Features(5, F) : inputs = <<x, ScenarioAdjacency>>
    /\ res = NoResult
    /\ clone = NoClone

NextScenario == Forward

SpecScenario == InitScenario /\ [][NextScenario]_vars

\* The configuration round trip: any constructed layer, rebuilt from its config.
InitConfig ==
    /\ \E cls \in Classes, kw \in ConfigKw : self = GINConv_init(cls, kw)
    /\ inputs = <<>>
    /\ res = NoResult
    /\ clone = NoClone

NextConfig == Reconstruct

SpecConfig == InitConfig /\ [][NextConfig]_vars

\* ------------------------------------------------------------ the formula
\* The neighbourhood of node i (counted from 0) in a sparse adjacency: the
\* nodes j with an entry (i, j).
Nbrs(a, i) == {j \in 0..(a.dense_shape[2] - 1) :
                  \E k \in 1..Len(a.indices) : a.indices[k] = <<i, j>>}

RECURSIVE SumOver(_, _, _)
SumOver(S, x, f) ==
    IF S = {} THEN 0
    ELSE LET j == CHOOSE j \in S : TRUE
         IN x[j + 1][f] + SumOver(S \ {j}, x, f)

MaxOver(S, x, f) ==
    IF S = {} THEN 0
    ELSE CHOOSE v \in {x[j + 1][f] : j \in S} : \A j \in S : x[j + 1][f] <= v

\* The neighbour term of the formula under each reduction.
NeighbourTerm(agg, x, a) ==
    [i \in 1..Rows(x) |-> [f \in 1..Cols(x) |->
        LET S == Nbrs(a, i - 1)
        IN CASE agg = "sum" -> SumOver(S, x, f)
             [] agg = "mean" -> IF S = {} THEN 0 ELSE SumOver(S, x, f) \div Cardinality(S)
             [] OTHER -> MaxOver(S, x, f)]]

\* (1 + eps) * x_i + sum of x_j over the neighbours j of i, for every node i
GINFormula(eps, x, a) ==
    [i \in 1..Rows(x) |-> [f \in 1..Cols(x) |->
        (1 + eps) * x[i][f] + SumOver(Nbrs(a, i - 1), x, f)]]

TheoremC8 ==
    (res.status = "ok" /\ self.cls = "GINConvBatch") =>
        \A b \in 1..Len(inputs[1]) : \A i \in 1..Rows(inputs[1][b]) :
            (\A j \in 1..Cols(inputs[2][b]) : inputs[2][b][i][j] = 0) =>
                /\ res.agg[b][i] = ZeroRow(Cols(inputs[1][b]))
                /\ res.pre[b][i] = [f \in 1..Cols(inputs[1][b]) |->
                                       (1 + self.eps) * inputs[1][b][i][f]]

\* A batch layer with eps # 0 has answered for a graph with a masked node of
\* non-zero features beside a connected node of non-zero features.
WitnessC8 ==
    /\ res.status = "ok"
    /\ self.cls = "GINConvBatch"
    /\ self.eps = MaxEps
    /\ \E b \in 1..Len(inputs[1]) : \E i, k \in 1..Rows(inputs[1][b]) :
          /\ \A j \in 1..Cols(inputs[2][b]) : inputs[2][b][i][j] = 0
          /\ inputs[1][b][i][1] > 0
          /\ inputs[2][b][k][k] = 0 /\ inputs[2][b][k][i] = 1
          /\ inputs[1][b][k][1] > 0

\* C2: in the 5-node scenario (edges (0,1), (1,0), (1,2), (3,3), sum
\* aggregation, identity update transform, epsilon 0) node 1 gets
\* feature(1) + feature(0) + feature(2) and node 4 gets feature(4), for every
\* choice of the node features.
TheoremC2 ==
    (res.status = "ok" /\ self.weights = "eye") =>
        /\ res.out[2] = RowAdd(inputs[1][2], RowAdd(inputs[1][1], inputs[1][3]))
        /\ res.out[5] = inputs[1][5]

\* The scenario has been run with the identity transform on non-zero features
\* of nodes 0, 1, 2 and 4.
WitnessC2 ==
    /\ res.status = "ok"
    /\ self.weights = "eye"
    /\ inputs[2] = ScenarioAdjacency
    /\ self.agg = "sum" /\ self.eps = 0 /\ self.mlp_hidden = <<>>
    /\ \A i \in {1, 2, 3, 5} : inputs[1][i][1] > 0

\* C3: for every valid input to GINConv or GINConvBatch the output has the
\* shape of the node features except for the last dimension: the node count
\* (and the batch size) is that of the input, the feature dimension is
\* channels, whatever mlp_hidden is.
TheoremC3 ==
    res.status = "ok" =>
        LET xs == ShapeOf(self.cls, inputs)[1]
        IN IF self.cls = "GINConv"
           THEN /\ Len(res.out) = xs[1]
                /\ \A i \in 1..Len(res.out) : Len(res.out[i]) = self.channels
           ELSE /\ Len(res.out) = xs[1]
                /\ \A b \in 1..Len(res.out) :
                      /\ Len(res.out[b]) = xs[2]
                      /\ \A i \in 1..Len(res.out[b]) :
                            Len(res.out[b][i]) = self.channels

\* A layer whose hidden size and whose input feature dimension both differ
\* from channels has answered.
WitnessC3 ==
    /\ res.status = "ok"
    /\ Len(self.mlp_hidden) > 0
    /\ self.mlp_hidden[1] # self.channels
    /\ LET xs == ShapeOf(self.cls, inputs)[1] IN xs[Len(xs)] # self.channels

\* C4 as stated: once the layer is built, every call whose input feature
\* dimension differs from the one observed at build fails with ShapeMismatch.
\* Refuted: a first call that fails on the node counts builds the layer but
\* never applies the MLP, and a later call of another feature dimension succeeds.
OriginalC4 ==
    LET xs == ShapeOf(self.cls, inputs)[1]
    IN (self.built /\ res.status # "none" /\ xs[Len(xs)] # self.build_dim)
          => res.status = "ShapeMismatch"

\* C5: epsilon is learned if and only if the layer was constructed with
\* epsilon None, and build then creates the weight with value zero; for a given
\* number, 0 included, there is no weight and eps stays the given constant.
TheoremC5 ==
    /\ [](self.built =>
             /\ self.eps_is_weight <=> self.epsilon.isNone
             /\ ~self.epsilon.isNone => self.eps = self.epsilon.v)
    /\ [][(~self.built /\ self'.built /\ self.epsilon.isNone) => self'.eps = 0]_vars

\* A layer constructed with epsilon 0 has been built and trained and has
\* answered again, with no epsilon weight.
WitnessC5 ==
    /\ self.built
    /\ self.epsilon = Some(0)
    /\ ~self.eps_is_weight
    /\ self.weights = "shift"
    /\ res.status = "ok"

TheoremC7 ==
    LET xs == ShapeOf(self.cls, inputs)[1]
        as == ShapeOf(self.cls, inputs)[2]
    IN (res.status # "none" /\ xs[Len(xs) - 1] # as[Len(as)])
          => (res.status = "ShapeMismatch" /\ res.out = <<>>)

\* A batch layer that has answered before is called with features and
\* adjacency of different node counts, in the feature dimension of its kernels.
WitnessC7 ==
    /\ res.status = "ShapeMismatch"
    /\ self.cls = "GINConvBatch"
    /\ LET xs == ShapeOf(self.cls, inputs)[1]
           as == ShapeOf(self.cls, inputs)[2]
       IN xs[Len(xs) - 1] # as[Len(as)] /\ xs[Len(xs)] = self.kernel_dim

\* C10: a forward call changes neither the caller's tensors nor the
\* constructor attributes; on a built layer it leaves the layer built, the MLP
\* structure as it is, and a fixed eps at its value.
TheoremC10 ==
    [][res'.status # "none" =>
          /\ inputs' = inputs
          /\ CtorAttrs(self') = CtorAttrs(self)
          /\ self.built =>
                /\ self'.built
                /\ self'.mlp = self.mlp
                /\ ~self.eps_is_weight => self'.eps = self.eps]_vars

\* A built and trained layer with a fixed non-zero epsilon has answered again.
WitnessC10 ==
    /\ res.status = "ok"
    /\ self.weights = "shift"
    /\ ~self.eps_is_weight
    /\ self.eps = MaxEps

====
